---- MODULE Spec2Model ----
(***************************************************************************)
(* ProjectTimer (src/project_timer.py): the timer state machine and the    *)
(* time-accounting record of the application, one action per Tk handler.   *)
(*                                                                         *)
(* Units: session_time is in whole seconds; stored hours are in tenths of  *)
(* an hour (the code stores round(seconds / 3600, 1)); a timestamp is the  *)
(* wall-clock second of datetime.now().isoformat(timespec='seconds').      *)
(***************************************************************************)
EXTENDS Integers, Sequences, FiniteSets, TLC

VARIABLES
    status,                 \* self.status
    session_time,           \* self.session_time
    current_project,        \* self.current_project
    current_project_hours,  \* self.current_project_hours (tenths of an hour)
    projects_data,          \* self.projects_data, in dict insertion order
    file,                   \* the content of DATA_FILE on disk
    pending,                \* update_display callbacks scheduled by root.after
    alarms,                 \* calls of alarm() since the project was selected
    now,                    \* the wall clock, in seconds
    closed,                 \* root.destroy() has run
    faults,                 \* number of failed writes of DATA_FILE so far
    run,                    \* the run of handlers in progress, if one is followed
    run_btn                 \* the text of self.run_btn: <<hours, minutes, seconds>>

vars == <<status, session_time, current_project, current_project_hours,
          projects_data, file, pending, alarms, now, closed, faults, run,
          run_btn>>

-----------------------------------------------------------------------------
(* Bounds of the exploration.                                              *)

\* The wall clock is explored up to second MaxNow.
MaxNow == 2
\* Session times are explored up to MaxMinutes whole minutes ...
MaxMinutes == 3
\* ... and up to MaxTick seconds above a whole minute.
MaxTick == 2
\* At most MaxPending update_display callbacks are scheduled at once.
MaxPending == 2
\* At most MaxAlarms alarms are raised on one selection.
MaxAlarms == 2
\* At most MaxFaults writes of DATA_FILE fail in one run.
MaxFaults == 1

-----------------------------------------------------------------------------
(* Program constants.                                                      *)

STOPPED == "stopped"
PAUSED == "paused"
RUNNING == "running"

CountDown == "CountDown"
\* Python's None for current_project.
None == "<None>"
\* self.session_time = 3600 when the countdown is selected.
COUNTDOWN == 3600
\* The + and - buttons: inc_session_time(+60), inc_session_time(-60).
STEP == 60

-----------------------------------------------------------------------------
(* Python's round(seconds / 3600, 1), in tenths of an hour.  The quotient  *)
(* is a binary float: a tie (seconds = 360k + 180) goes to whichever side  *)
(* the float nearest to it lies on, or to the even tenth when the float is *)
(* exact.  The ties below round down; the table covers 0 <= s < 4140.      *)
TiesDown == {540, 900, 1260, 3060, 3420}

Round1(s) ==
    IF s \in TiesDown THEN (s + 180) \div 360 - 1 ELSE (s + 180) \div 360

-----------------------------------------------------------------------------
(* projects_data: a sequence of [name, log] in insertion order; a log is a *)
(* dict from timestamp to hours, here a set of <<timestamp, tenths>> with  *)
(* at most one pair per timestamp.                                         *)

Keys(d) == {d[i].name : i \in 1..Len(d)}

Has(d, n) == n \in Keys(d)

Idx(d, n) == CHOOSE i \in 1..Len(d) : d[i].name = n

LogOf(d, n) == d[Idx(d, n)].log

\* log[ts] = h: a dict assignment replaces the value of a key already there.
SetEntry(log, ts, h) == {e \in log : e[1] # ts} \cup {<<ts, h>>}

\* d[n] = log for a key already in d.
PutLog(d, n, log) == [d EXCEPT ![Idx(d, n)].log = log]

\* d[n] = {} for a new key.
NewProject(d, n) == Append(d, [name |-> n, log |-> {}])

RECURSIVE SumHours(_)
SumHours(log) ==
    IF log = {} THEN 0
    ELSE LET e == CHOOSE x \in log : TRUE
         IN e[2] + SumHours(log \ {e})

\* get_project_total_time: the sum of the hours of a project, rounded to 0.1.
get_project_total_time(cur, d, n) ==
    IF cur = None THEN 0 ELSE SumHours(LogOf(d, n))

\* most_recent_date = None
NoDate == -1
\* list(self.projects_data.keys())[1] on a dict with one key raises.
IndexError == "<IndexError>"

MaxOf(S) == CHOOSE t \in S : \A u \in S : u <= t

\* The loop of get_most_recent_project from project i on: a date replaces
\* the most recent one only when it is strictly later.
RECURSIVE MostRecentFrom(_, _, _, _)
MostRecentFrom(d, i, most_recent_date, most_recent_project) ==
    IF i > Len(d) THEN most_recent_project
    ELSE LET dates == {e[1] : e \in d[i].log}
             later == {t \in dates : most_recent_date = NoDate \/ t > most_recent_date}
         IN IF later = {}
            THEN MostRecentFrom(d, i + 1, most_recent_date, most_recent_project)
            ELSE MostRecentFrom(d, i + 1, MaxOf(later), d[i].name)

get_most_recent_project(d) ==
    IF Len(d) = 0 THEN None
    ELSE LET p == MostRecentFrom(d, 1, NoDate, None)
         IN IF p # None THEN p
            ELSE IF Len(d) >= 2 THEN d[2].name ELSE IndexError

-----------------------------------------------------------------------------
(* DATA_FILE: missing, a JSON document holding a record, or the unreadable *)
(* remains of a write that failed after open(DATA_FILE, 'w') truncated it. *)

Missing == [kind |-> "missing", data |-> <<>>]
Partial == [kind |-> "partial", data |-> <<>>]
Json(d) == [kind |-> "json", data |-> d]

\* The outcomes of open + json.dump in save_data.
IoOutcomes == {"ok", "open_fails", "dump_fails"}

WriteFile(f, d, io) ==
    CASE io = "ok" -> Json(d)
      [] io = "open_fails" -> f
      [] io = "dump_fails" -> Partial

\* load_data: what __init__ holds after it, as [data, project, hours].
load_data(f) ==
    LET empty == [data |-> <<>>, project |-> None, hours |-> 0]
    IN IF f.kind = "missing" THEN empty
       ELSE IF f.kind # "json" THEN empty
       ELSE LET p == get_most_recent_project(f.data)
            IN IF p = IndexError THEN empty
               ELSE [data |-> f.data, project |-> p,
                     hours |-> IF p # None
                               THEN get_project_total_time(p, f.data, p) ELSE 0]

\* update_project_list: the combobox lists CountDown first, and a session
\* without a project takes the first of the list.
update_project_list(cur) == IF cur = None THEN CountDown ELSE cur

-----------------------------------------------------------------------------
(* The timer.                                                              *)

\* A variant of convert_seconds_to_hms whose hours wrap at a day.
convert_seconds_to_hms_wrap(total_seconds) ==
    <<(total_seconds \div 3600) % 24,
      (total_seconds % 3600) \div 60,
      (total_seconds % 3600) % 60>>

\* helpers.convert_seconds_to_hms on the integer session_time: Python's
\* // and % floor, as \div and % do.
convert_seconds_to_hms(total_seconds) ==
    LET hours == total_seconds \div 3600
        remaining_seconds == total_seconds % 3600
        minutes == remaining_seconds \div 60
        seconds == remaining_seconds % 60
    IN <<hours, minutes, seconds>>

\* A variant of Accrue that counts whatever the status.
AccrueAlways(st, cur, s) ==
    IF cur = CountDown THEN s - 1 ELSE s + 1

\* update_display, first step: one second is added to a project's session
\* and taken from the countdown, unless the timer is paused.
Accrue(st, cur, s) ==
    IF st # PAUSED
    THEN IF cur = CountDown THEN s - 1 ELSE s + 1
    ELSE s

\* A variant of Expired that fires one second early, at zero.
ExpiredAtZero(s) == s <= 0

\* update_display, second step: the countdown has run out.
Expired(s) == s < 0

\* update_display called with status st: the status and session time it
\* leaves, whether it calls alarm(), and whether it schedules itself again.
update_display(st, cur, s) ==
    LET s1 == Accrue(st, cur, s)
    IN IF Expired(s1)
       THEN [status |-> PAUSED, session_time |-> 0, alarm |-> TRUE, again |-> FALSE]
       ELSE [status |-> st, session_time |-> s1, alarm |-> FALSE,
             again |-> st = RUNNING]

\* inc_session_time's arithmetic: 0 resets, anything else is added and
\* clamped at 0.
Adjusted(s, delta) ==
    IF delta = 0 THEN 0
    ELSE IF s + delta < 0 THEN 0 ELSE s + delta

\* A variant of Persists that has no reserved name.
PersistsAny(cur) == TRUE

\* save_data's guard: if self.current_project != "CountDown".
Persists(cur) == cur # CountDown

\* A variant of Propagates without the except clause of save_data.
PropagatesFailure(io) == io # "ok"

\* save_data's try / except Exception around the write: a failure with
\* outcome io is printed, and nothing propagates to the handler.
Propagates(io) == FALSE

\* save_data's assignment, for a session of s seconds committed at second t.
save_data(d, cur, s, t) ==
    IF Persists(cur)
    THEN PutLog(d, cur, SetEntry(LogOf(d, cur), t, Round1(s)))
    ELSE d

\* save_data's lookup self.projects_data[self.current_project] raises.
KeyError(d, cur) == Persists(cur) /\ ~Has(d, cur)

\* A variant of Commits that commits a session of no seconds too.
CommitsAlways(cur, s) == cur # None

\* on_project_selected commits first: if self.session_time > 0 and
\* self.current_project.
Commits(cur, s) == s > 0 /\ cur # None

\* A variant of SessionAfterSelect that resets the session for any name.
SessionAfterSelectAny(d, selected, s) ==
    IF selected = CountDown THEN COUNTDOWN ELSE 0

\* on_project_selected's assignments to self.session_time: 3600 for the
\* countdown, 0 for a project of the record, none for any other text.
SessionAfterSelect(d, selected, s) ==
    IF selected = CountDown THEN COUNTDOWN
    ELSE IF Has(d, selected) THEN 0
    ELSE s

\* A variant of Strip that keeps the text as typed.
NoStrip(raw) == raw

\* str.strip() on the texts typed in the combobox.
Strip(raw) ==
    CASE raw = " " -> ""
      [] raw = " B" -> "B"
      [] OTHER -> raw

-----------------------------------------------------------------------------
(* What is explored.                                                       *)

\* Texts typed in the combobox before Return or the + button.
Typed == {"", " ", "B", " B"}
\* Texts in the combobox when a selection is made.
Selectable == {"A", "B", CountDown}
\* The buttons +, - and 0.
Deltas == {STEP, 0 - STEP, 0}

Rec(n, log) == [name |-> n, log |-> log]

\* The contents of DATA_FILE a process is started on, in second 1: no
\* file, or one project with an entry of 0.1 h made in second 0.
InitFiles ==
    { Missing,
      Json(<<Rec("A", {<<0, 1>>})>>) }

\* Session times are explored up to MaxTick seconds above a whole minute,
\* for MaxMinutes minutes, the countdown also in the last win seconds
\* below COUNTDOWN, and long sessions up to MaxTick seconds above the
\* ClockInputs.
Near(s, win) == (s % STEP) <= win

\* Long sessions a clock is followed from: the examples 1h 01m 01 and
\* 2h 02m 05, the last second of a day and the last second of 100 hours.
ClockInputs == {3661, 7325, 86399, 359999}

Explored(cur, s, win) ==
    \/ s <= STEP * MaxMinutes + MaxTick /\ Near(s, MaxTick)
    \/ cur = CountDown /\ s <= COUNTDOWN /\ s >= COUNTDOWN - win
    \/ \E c \in ClockInputs : s >= c /\ s <= c + MaxTick

-----------------------------------------------------------------------------
(* History.  The runs that are followed: the state a process starts in    *)
(* ("loaded"); a start from the initial state of a project and the ticks   *)
(* after it ("project"); a selection of the countdown, with the project it *)
(* found and the session of that project ("armed"), the start after it and *)
(* the ticks after that ("countdown"); a selection of a text that is       *)
(* neither the countdown nor a project ("absent"); a selection during      *)
(* which the write failed ("failed"); a Return on a blank or known name    *)
(* while the timer runs ("rejected"); a press of +, - or 0 while the timer *)
(* runs with a callback scheduled, and the callbacks that fire after it    *)
(* ("adjusted").  The last three are followed in the second the process    *)
(* starts in.  n counts the ticks.                                         *)

NoRun == [kind |-> "none", n |-> 0, project |-> None, session |-> 0]

Loaded == [NoRun EXCEPT !.kind = "loaded"]

\* The second a process starts in.
FirstSecond == now = 1

RunAfter(op, arg) ==
    CASE op = "start" ->
            IF status = STOPPED /\ session_time = 0 /\ current_project # CountDown
            THEN [NoRun EXCEPT !.kind = "project"]
            ELSE IF run.kind = "armed"
            THEN [NoRun EXCEPT !.kind = "countdown"]
            ELSE NoRun
      [] op = "tick" ->
            IF run.kind \in {"project", "countdown"} /\ run.n < COUNTDOWN
            THEN [run EXCEPT !.n = run.n + 1]
            ELSE IF run.kind = "adjusted"
            THEN [run EXCEPT !.n = 1]
            ELSE NoRun
      [] op = "select" ->
            IF arg = CountDown
            THEN [kind |-> "armed", n |-> 0,
                  project |-> current_project,
                  session |-> IF current_project = CountDown THEN 0
                              ELSE session_time]
            ELSE IF ~Has(projects_data, arg) /\ FirstSecond
            THEN [NoRun EXCEPT !.kind = "absent"]
            ELSE NoRun
      [] op = "select_failed" ->
            [NoRun EXCEPT !.kind = "failed", !.project = arg]
      [] op = "create" ->
            IF (arg = "" \/ Has(projects_data, arg)) /\ status = RUNNING /\ FirstSecond
            THEN [NoRun EXCEPT !.kind = "rejected", !.project = arg]
            ELSE NoRun
      [] op = "adjust" ->
            IF pending > 0 /\ status = RUNNING /\ FirstSecond
            THEN [NoRun EXCEPT !.kind = "adjusted"]
            ELSE NoRun
      [] OTHER -> NoRun

-----------------------------------------------------------------------------
InitOn(files) ==
    /\ file \in files
    /\ LET l == load_data(file)
       IN /\ projects_data = l.data
          /\ current_project = update_project_list(l.project)
          /\ current_project_hours = l.hours
    /\ status = STOPPED
    /\ session_time = 0
    /\ pending = 0
    /\ alarms = 0
    /\ FirstSecond
    /\ closed = FALSE
    /\ faults = 0
    /\ run = Loaded
    /\ run_btn = <<0, 0, 0>>

Init == InitOn(InitFiles)

\* The write of DATA_FILE at the end of save_data, when it is reached.
Write(wrote, d, io) ==
    /\ io # "ok" => wrote /\ faults < MaxFaults
    /\ file' = IF wrote THEN WriteFile(file, d, io) ELSE file
    /\ faults' = IF io # "ok" THEN faults + 1 ELSE faults

\* The session after update_display has run; took is 1 for a scheduled
\* callback, which is no longer pending, and 0 for a direct call.
Display(st, s, took, win) ==
    LET u == update_display(st, current_project, s)
        sched == IF u.again THEN 1 ELSE 0
        rang == IF u.alarm THEN 1 ELSE 0
    IN /\ u.session_time = session_time
          \/ Explored(current_project, u.session_time, win)
       /\ pending - took + sched <= MaxPending
       /\ alarms + rang <= MaxAlarms
       /\ status' = u.status
       /\ session_time' = u.session_time
       /\ pending' = pending - took + sched
       /\ alarms' = alarms + rang
       /\ run_btn' = convert_seconds_to_hms(u.session_time)

\* toggle_timer while not running: resume_timer.
resume_timer(win) ==
    /\ ~closed
    /\ status # RUNNING
    /\ Display(RUNNING, session_time, 0, win)
    /\ run' = RunAfter("start", "")
    /\ UNCHANGED <<current_project, current_project_hours, projects_data, file,
                   now, closed, faults>>

\* toggle_timer while running: pause_timer.
pause_timer ==
    /\ ~closed
    /\ status = RUNNING
    /\ status' = PAUSED
    /\ run' = RunAfter("pause", "")
    /\ UNCHANGED <<session_time, current_project, current_project_hours,
                   projects_data, file, pending, alarms, now, closed, faults,
                   run_btn>>

\* A scheduled update_display callback fires.
tick(win) ==
    /\ ~closed
    /\ pending > 0
    /\ Display(status, session_time, 1, win)
    /\ run' = RunAfter("tick", "")
    /\ UNCHANGED <<current_project, current_project_hours, projects_data, file,
                   now, closed, faults>>

\* The buttons +, - and 0.
inc_session_time(delta, win) ==
    /\ ~closed
    /\ Display(PAUSED, Adjusted(session_time, delta), 0, win)
    /\ run' = RunAfter("adjust", delta)
    /\ UNCHANGED <<current_project, current_project_hours, projects_data, file,
                   now, closed, faults>>

\* Return or the + button of the combobox.
add_new_project(raw, io) ==
    LET project_name == Strip(raw)
        created == project_name # "" /\ ~Has(projects_data, project_name)
        d1 == NewProject(projects_data, project_name)
        d2 == save_data(d1, project_name, session_time, now)
        raised == Persists(project_name) /\ Propagates(io)
    IN /\ ~closed
       /\ IF created
          THEN /\ projects_data' = d2
               /\ current_project' = project_name
               /\ current_project_hours' = IF raised THEN current_project_hours ELSE 0
               /\ Write(Persists(project_name), d2, io)
               /\ alarms' = 0
          ELSE /\ io = "ok"
               /\ UNCHANGED <<projects_data, current_project,
                              current_project_hours, file, faults, alarms>>
       /\ run' = RunAfter("create", project_name)
       /\ UNCHANGED <<status, session_time, pending, now, closed, run_btn>>

\* A selection in the combobox.
on_project_selected(selected, io) ==
    LET commit == Commits(current_project, session_time)
        d1 == IF commit
              THEN save_data(projects_data, current_project, session_time, now)
              ELSE projects_data
        wrote == commit /\ Persists(current_project)
        raised == wrote /\ Propagates(io)
    IN /\ ~closed
       /\ ~(commit /\ KeyError(projects_data, current_project))
       /\ projects_data' = d1
       /\ Write(wrote, d1, io)
       /\ IF raised
          THEN UNCHANGED <<current_project, current_project_hours, session_time,
                           alarms, run_btn>>
          ELSE /\ session_time' = SessionAfterSelect(d1, selected, session_time)
               /\ IF selected = CountDown
                  THEN /\ current_project' = CountDown
                       /\ current_project_hours' = 0
                       /\ alarms' = 0
                       /\ run_btn' = <<1, 0, 0>>
                  ELSE IF Has(d1, selected)
                  THEN /\ current_project' = selected
                       /\ current_project_hours' =
                             get_project_total_time(selected, d1, selected)
                       /\ alarms' = 0
                       /\ run_btn' = <<0, 0, 0>>
                  ELSE UNCHANGED <<current_project, current_project_hours, alarms,
                                   run_btn>>
       /\ run' = RunAfter(IF io = "ok" THEN "select" ELSE "select_failed", selected)
       /\ UNCHANGED <<status, pending, now, closed>>

\* The window is closed.
on_closing(io) ==
    LET st1 == IF status = RUNNING THEN PAUSED ELSE status
        d1 == save_data(projects_data, current_project, session_time, now)
        raised == Persists(current_project) /\ Propagates(io)
    IN /\ ~closed
       /\ status' = st1
       /\ IF KeyError(projects_data, current_project)
          THEN /\ io = "ok"
               /\ UNCHANGED <<projects_data, file, faults, closed>>
          ELSE /\ projects_data' = d1
               /\ Write(Persists(current_project), d1, io)
               /\ closed' = ~raised
       /\ run' = RunAfter("close", "")
       /\ UNCHANGED <<session_time, current_project, current_project_hours,
                      pending, alarms, now, run_btn>>

\* A second of wall-clock time passes.
Advance ==
    /\ ~closed
    /\ now < MaxNow
    /\ now' = now + 1
    /\ UNCHANGED <<status, session_time, current_project, current_project_hours,
                   projects_data, file, pending, alarms, closed, faults, run,
                   run_btn>>

Next ==
    \/ resume_timer(MaxTick)
    \/ pause_timer
    \/ tick(MaxTick)
    \/ \E delta \in Deltas : inc_session_time(delta, MaxTick)
    \/ \E raw \in Typed : add_new_project(raw, "ok")
    \/ \E selected \in Selectable : on_project_selected(selected, "ok")
    \/ on_closing("ok")
    \/ Advance

Spec == Init /\ [][Next]_vars

-----------------------------------------------------------------------------
(* The countdown in full: the timer and the selections, with every second  *)
(* of the countdown explored.                                              *)

NextCountdown ==
    \/ resume_timer(COUNTDOWN)
    \/ pause_timer
    \/ tick(COUNTDOWN)
    \/ \E selected \in Selectable : on_project_selected(selected, "ok")

SpecCountdown == Init /\ [][NextCountdown]_vars

-----------------------------------------------------------------------------
(* The session within one second of wall-clock time: every handler, and a  *)
(* clock that stands still.                                                *)

NextSession ==
    \/ resume_timer(MaxTick)
    \/ pause_timer
    \/ tick(MaxTick)
    \/ \E delta \in Deltas : inc_session_time(delta, MaxTick)
    \/ \E raw \in Typed : add_new_project(raw, "ok")
    \/ \E selected \in Selectable : on_project_selected(selected, "ok")
    \/ on_closing("ok")

SpecSession == Init /\ [][NextSession]_vars

-----------------------------------------------------------------------------
(* The timer as an object: its handlers, and update_display called as a    *)
(* method in whatever state the object is in, as resume_timer and          *)
(* inc_session_time call it.  Such a call fires no scheduled callback.     *)

call_update_display(win) ==
    /\ ~closed
    /\ Display(status, session_time, 0, win)
    /\ run' = RunAfter("display", "")
    /\ UNCHANGED <<current_project, current_project_hours, projects_data, file,
                   now, closed, faults>>

NextEngine ==
    \/ resume_timer(MaxTick)
    \/ pause_timer
    \/ tick(MaxTick)
    \/ \E delta \in Deltas : inc_session_time(delta, MaxTick)
    \/ \E selected \in Selectable : on_project_selected(selected, "ok")
    \/ call_update_display(MaxTick)

SpecEngine == Init /\ [][NextEngine]_vars

-----------------------------------------------------------------------------
(* The reserved name: every handler, with "CountDown" among the names      *)
(* typed for a new project, within one second of wall-clock time.          *)

TypedReserved == {CountDown, "B"}

NextReserved ==
    \/ resume_timer(MaxTick)
    \/ pause_timer
    \/ tick(MaxTick)
    \/ \E delta \in Deltas : inc_session_time(delta, MaxTick)
    \/ \E raw \in TypedReserved : add_new_project(raw, "ok")
    \/ \E selected \in Selectable : on_project_selected(selected, "ok")
    \/ on_closing("ok")

SpecReserved == Init /\ [][NextReserved]_vars

-----------------------------------------------------------------------------
(* Writes that fail: the handlers that reach the write of DATA_FILE, with  *)
(* every outcome of open and json.dump, and the timer.                     *)

NextFaults ==
    \/ resume_timer(MaxTick)
    \/ pause_timer
    \/ tick(MaxTick)
    \/ \E raw \in Typed, io \in IoOutcomes : add_new_project(raw, io)
    \/ \E selected \in Selectable, io \in IoOutcomes :
          on_project_selected(selected, io)
    \/ \E io \in IoOutcomes : on_closing(io)

SpecFaults == Init /\ [][NextFaults]_vars

-----------------------------------------------------------------------------
(* The start of a process on the files it may find: none, an unreadable    *)
(* one, and records with no project, with projects without entries, with   *)
(* entries of different, reversed and equal dates, and with a project      *)
(* named "CountDown"; then the timer, the selections and the close.        *)

LoadFiles ==
    { Missing,
      Partial,
      Json(<<>>),
      Json(<<Rec("A", {})>>),
      Json(<<Rec("A", {}), Rec("B", {})>>),
      Json(<<Rec("A", {<<0, 1>>}), Rec("B", {})>>),
      Json(<<Rec("A", {<<0, 1>>}), Rec("B", {<<1, 2>>})>>),
      Json(<<Rec("A", {<<1, 1>>}), Rec("B", {<<0, 2>>})>>),
      Json(<<Rec("A", {<<1, 1>>}), Rec("B", {<<1, 2>>})>>),
      Json(<<Rec("A", {}), Rec(CountDown, {})>>) }

NextLoad ==
    \/ resume_timer(MaxTick)
    \/ pause_timer
    \/ tick(MaxTick)
    \/ \E selected \in Selectable : on_project_selected(selected, "ok")
    \/ on_closing("ok")

SpecLoad == InitOn(LoadFiles) /\ [][NextLoad]_vars

-----------------------------------------------------------------------------
(* The clock of long sessions: the timer, from a session on project A that *)
(* has been running for one of the ClockInputs seconds.                    *)

InitClock ==
    /\ file = Json(<<Rec("A", {<<0, 1>>})>>)
    /\ projects_data = file.data
    /\ current_project = "A"
    /\ current_project_hours = 1
    /\ status = RUNNING
    /\ session_time \in ClockInputs
    /\ run_btn = convert_seconds_to_hms(session_time)
    /\ pending = 1
    /\ alarms = 0
    /\ FirstSecond
    /\ closed = FALSE
    /\ faults = 0
    /\ run = NoRun

NextClock ==
    \/ resume_timer(MaxTick)
    \/ pause_timer
    \/ tick(MaxTick)
    \/ \E delta \in Deltas : inc_session_time(delta, MaxTick)

SpecClock == InitClock /\ [][NextClock]_vars

-----------------------------------------------------------------------------
(* Vocabulary of the properties.                                           *)

\* The log of p in d2 is its log in d with exactly one more entry, of h.
AppendedOne(d, d2, p, h) ==
    LET old == LogOf(d, p)
        new == LogOf(d2, p)
    IN /\ old \subseteq new
       /\ Cardinality(new) = Cardinality(old) + 1
       /\ \A e \in new \ old : e[2] = h

\* d2 has the projects of d, and every log but that of p is as it was.
OthersUnchanged(d, d2, p) ==
    /\ Keys(d2) = Keys(d)
    /\ \A q \in Keys(d) \ {p} : LogOf(d2, q) = LogOf(d, q)

\* A handler commits the session to project p: a selection that finds a
\* session to commit, or the closing of the window.
CommitsTo(p) ==
    /\ current_project = p
    /\ p # CountDown
    /\ \/ /\ Commits(current_project, session_time)
          /\ \E selected \in Selectable : on_project_selected(selected, "ok")
       \/ on_closing("ok") /\ closed'

-----------------------------------------------------------------------------
(* C1: selecting an existing project while a normal project is active with *)
(* s > 0 seconds appends exactly one entry, of round(s / 3600, 1) hours,   *)
(* to the log of the project that was active, and leaves the selected      *)
(* project active with no elapsed seconds and its total displayed.         *)
C1_SelectCommitsOneEntry ==
    [][\A name \in Selectable :
         ( /\ on_project_selected(name, "ok")
           /\ Has(projects_data, name)
           /\ current_project # CountDown
           /\ session_time > 0 )
         => /\ AppendedOne(projects_data, projects_data', current_project,
                           Round1(session_time))
            /\ OthersUnchanged(projects_data, projects_data', current_project)
            /\ current_project' = name
            /\ session_time' = 0
            /\ current_project_hours' = SumHours(LogOf(projects_data', name))
      ]_vars

(* C2: creating a project with a new, non-blank name gives it an empty log *)
(* and leaves it active with no elapsed seconds and a total of 0.          *)
C2_CreateStartsEmpty ==
    [][\A raw \in Typed :
         ( /\ add_new_project(raw, "ok")
           /\ Strip(raw) # ""
           /\ ~Has(projects_data, Strip(raw)) )
         => /\ Has(projects_data', Strip(raw))
            /\ LogOf(projects_data', Strip(raw)) = {}
            /\ current_project' = Strip(raw)
            /\ session_time' = 0
            /\ current_project_hours' = 0
      ]_vars

(* C3: at most one update_display callback is scheduled in any state, so   *)
(* that a session never advances twice in one period.                      *)
C3_AtMostOnePendingTick == pending <= 1

(* C4: after a start in the initial state of a project (stopped, no        *)
(* elapsed seconds) and n ticks, the session is n seconds and the timer    *)
(* runs: the start itself takes no second.                                 *)
C4_StartThenTicks ==
    run.kind = "project" => session_time = run.n /\ status = RUNNING

(* C5: selecting the countdown sets the session to 3600 seconds; after the *)
(* start that follows and 3600 ticks the session is 0 and exactly one      *)
(* alarm has been raised, by the last of these ticks; the session is never *)
(* negative.  The start takes the first second: n < 3600 ticks after it    *)
(* the session is 3599 - n.                                                *)
C5_CountdownToZero ==
    /\ session_time >= 0
    /\ run.kind = "armed" => session_time = COUNTDOWN /\ alarms = 0
    /\ run.kind = "countdown" /\ run.n < COUNTDOWN =>
          session_time = COUNTDOWN - 1 - run.n /\ alarms = 0
    /\ run.kind = "countdown" /\ run.n = COUNTDOWN =>
          session_time = 0 /\ alarms = 1

\* The countdown has been selected and started, and 3600 ticks have fired.
C5_Witness ==
    run.kind = "countdown" /\ run.n = COUNTDOWN /\ current_project = CountDown

(* C6: a selection of an existing project or of the countdown leaves the   *)
(* timer paused, whatever its status was.                                  *)
C6_SelectPauses ==
    [][\A name \in Selectable :
         ( /\ on_project_selected(name, "ok")
           /\ (name = CountDown \/ Has(projects_data, name)) )
         => status' = PAUSED
      ]_vars

(* C7: closing pauses a running timer and commits if and only if a normal  *)
(* project is active with elapsed seconds: then exactly one entry is       *)
(* appended, and otherwise the record and the file are left as they were.  *)
C7_CloseCommitsIffNonzero ==
    [][( on_closing("ok") /\ closed' )
         => /\ status = RUNNING => status' = PAUSED
            /\ IF current_project # CountDown /\ session_time > 0
               THEN /\ AppendedOne(projects_data, projects_data', current_project,
                                   Round1(session_time))
                    /\ OthersUnchanged(projects_data, projects_data', current_project)
               ELSE projects_data' = projects_data /\ file' = file
      ]_vars

(* C8: a commit to a project whose log already holds an entry made in the  *)
(* same second adds a second entry: the log grows by one.                  *)
C8_SameSecondKeepsBoth ==
    [][\A p \in Keys(projects_data) :
         ( /\ CommitsTo(p)
           /\ \E e \in LogOf(projects_data, p) : e[1] = now )
         => Cardinality(LogOf(projects_data', p))
              = Cardinality(LogOf(projects_data, p)) + 1
      ]_vars

(* C9: no step makes the total hours of a project smaller.                 *)
C9_TotalNeverDecreases ==
    [][\A p \in Keys(projects_data) :
         /\ Has(projects_data', p)
         /\ SumHours(LogOf(projects_data', p)) >= SumHours(LogOf(projects_data, p))
      ]_vars

(* C10, as claimed: selecting the countdown changes neither the record in  *)
(* memory nor the file.                                                    *)
C10_CountdownLeavesStore ==
    [][on_project_selected(CountDown, "ok")
         => projects_data' = projects_data /\ file' = file
      ]_vars

(* C10, amended: selecting the countdown changes neither the record nor    *)
(* the file when no seconds have elapsed or the countdown is already       *)
(* active; when a normal project is active with elapsed seconds it commits *)
(* that session first: the entry of that project for the present second    *)
(* becomes round(s / 3600, 1), every other entry and project is left as it *)
(* was, and the record is written to the file.                             *)
C10_CountdownCommitsSessionOnly ==
    [][on_project_selected(CountDown, "ok")
         => IF session_time = 0 \/ current_project = CountDown
            THEN projects_data' = projects_data /\ file' = file
            ELSE LET old == LogOf(projects_data, current_project)
                     new == LogOf(projects_data', current_project)
                 IN /\ OthersUnchanged(projects_data, projects_data', current_project)
                    /\ {e \in new : e[1] = now} = {<<now, Round1(session_time)>>}
                    /\ {e \in new : e[1] # now} = {e \in old : e[1] # now}
                    /\ \E io \in IoOutcomes :
                          file' = WriteFile(file, projects_data', io)
      ]_vars

\* The countdown was selected while a normal project had elapsed seconds,
\* and the session of that project is in its log.
C10_Witness ==
    /\ run.kind = "armed"
    /\ run.session > 0
    /\ run.project # CountDown
    /\ current_project = CountDown
    /\ \E e \in LogOf(projects_data, run.project) : e[2] = Round1(run.session)

(* C11: once the countdown has raised its alarm and stands at 0, a start   *)
(* or a tick raises no further alarm.                                      *)
C11_OneAlarmPerCrossing ==
    [][( /\ current_project = CountDown
         /\ session_time = 0
         /\ alarms >= 1
         /\ (resume_timer(MaxTick) \/ tick(MaxTick)) )
         => alarms' = alarms
      ]_vars

(* C12: selecting a text that is neither the countdown nor a project of    *)
(* the record leaves the active project, the session and the status as     *)
(* they were.                                                              *)
C12_SelectAbsentStays ==
    [][\A name \in Selectable :
         ( /\ on_project_selected(name, "ok")
           /\ name # CountDown
           /\ ~Has(projects_data, name) )
         => UNCHANGED <<current_project, session_time, status>>
      ]_vars

\* Such a text was selected while a session was running.
C12_Witness ==
    run.kind = "absent" /\ session_time > 0 /\ status = RUNNING

\* The name a typed text stands for: the text without the blanks around it.
Named(raw) ==
    CASE raw \in {"", " "} -> ""
      [] raw \in {"B", " B"} -> "B"
      [] OTHER -> raw

(* C13: a Return on a text that is empty or blank, or that names a project *)
(* of the record, changes nothing: not the record, the file, the active    *)
(* project and its total, the session or the status.                       *)
C13_CreateRejectedChangesNothing ==
    [][\A raw \in Typed :
         ( /\ add_new_project(raw, "ok")
           /\ (Named(raw) = "" \/ Has(projects_data, Named(raw))) )
         => UNCHANGED <<projects_data, file, current_project,
                        current_project_hours, session_time, status>>
      ]_vars

\* The name of a project of the record was typed again while a session
\* was in progress.
C13_Witness ==
    /\ run.kind = "rejected"
    /\ Has(projects_data, run.project)
    /\ session_time > 0

C15_TickOnlyWhileRunning ==
    [][( /\ status # RUNNING
         /\ (tick(MaxTick) \/ call_update_display(MaxTick)) )
         => session_time' = session_time
      ]_vars

\* No entry is recorded under the reserved name in the record d.
NoCountdownEntries(d) ==
    \A i \in 1..Len(d) : d[i].name = CountDown => d[i].log = {}

C17_FailedSaveKeepsFile ==
    [][faults' > faults => file' = file]_vars

(* C18: a write that fails does not block the handler: a selection of a    *)
(* project of the record still makes it the active project with no elapsed *)
(* seconds, a selection of the countdown still arms the countdown, and a   *)
(* close still closes.                                                     *)
C18_FailedWriteDoesNotBlock ==
    [][ /\ \A selected \in Selectable, io \in IoOutcomes \ {"ok"} :
             on_project_selected(selected, io)
             => /\ selected = CountDown
                     => current_project' = CountDown /\ session_time' = COUNTDOWN
                /\ Has(projects_data, selected)
                     => current_project' = selected /\ session_time' = 0
        /\ \A io \in IoOutcomes \ {"ok"} : on_closing(io) => closed'
      ]_vars

\* A project of the record was selected, the write of that selection
\* failed, and the project is active with no elapsed seconds.
C18_Witness ==
    /\ run.kind = "failed"
    /\ faults > 0
    /\ Has(projects_data, run.project)
    /\ current_project = run.project
    /\ session_time = 0

\* The entries of every project of the record d.
AllEntries(d) == UNION {d[i].log : i \in 1..Len(d)}

(* C19: a process started on a record with at least one project keeps the  *)
(* record as loaded and takes one of its projects: the one that holds the  *)
(* latest date when there are entries, and some project of the record when *)
(* there are none, also when the record has a single project.              *)
C19_MostRecentProject ==
    ( /\ run.kind = "loaded"
      /\ file.kind = "json"
      /\ file.data # <<>> )
    => /\ projects_data = file.data
       /\ Has(file.data, current_project)
       /\ AllEntries(file.data) # {}
            => \E e \in LogOf(file.data, current_project) :
                  \A e2 \in AllEntries(file.data) : e2[1] <= e[1]

(* C20: a process starts stopped with no elapsed seconds, on no project or *)
(* on a project of the record, and never on the countdown.                 *)
C20_StartsStoppedOffCountdown ==
    run.kind = "loaded"
    => /\ status = STOPPED
       /\ session_time = 0
       /\ current_project # CountDown
       /\ current_project = None \/ Has(projects_data, current_project)

(* C21: the clock <<h, m, sec>> shown for a session of s seconds satisfies *)
(* h * 3600 + m * 60 + sec = s with m and sec between 0 and 59, and        *)
(* h = s div 3600, also beyond 24 hours.                                   *)
C21_ClockShowsSession ==
    LET h == run_btn[1]
        m == run_btn[2]
        sec == run_btn[3]
    IN /\ h * 3600 + m * 60 + sec = session_time
       /\ 0 <= m /\ m <= 59
       /\ 0 <= sec /\ sec <= 59
       /\ h = session_time \div 3600

\* A tick has taken a session past the end of a day, and the clock shows
\* 24 hours.
C21_Witness ==
    session_time = 86400 /\ run_btn = <<24, 0, 0>> /\ status = RUNNING

\* The entries of project p that a step adds or replaces.
Recorded(p) ==
    LogOf(projects_data', p)
      \ (IF Has(projects_data, p) THEN LogOf(projects_data, p) ELSE {})

(* C22: hours are recorded only under the project they accrued on: an      *)
(* entry that carries hours is added to the log of the project that was    *)
(* active while the session ran, never to the log of another project.      *)
C22_HoursGoToTheirProject ==
    [][\A p \in Keys(projects_data') :
         \A e \in Recorded(p) : e[2] > 0 => p = current_project
      ]_vars

(* C23: no second is committed twice: a selection or a close that records  *)
(* an entry for the session ends the session in the same step, by          *)
(* resetting it to 0, by arming the countdown or by closing.               *)
C23_CommitEndsSession ==
    [][( /\ \/ \E selected \in Selectable : on_project_selected(selected, "ok")
            \/ on_closing("ok")
         /\ projects_data' # projects_data )
         => \/ session_time' = 0
            \/ current_project' = CountDown
            \/ closed'
      ]_vars

====
